---- MODULE Spec2Model ----
(***************************************************************************)
(* Model of crazy_functions/Arxiv_论文对话.py: the ArxivRagWorker          *)
(* ingestion pipeline (process_paper, _process_fragments), its task        *)
(* tracker (processing_queue, wait_for_paper), the on-disk checkpoint      *)
(* marker, _normalize_arxiv_id, and the turns of the plugin entry point.   *)
(*                                                                         *)
(* A call of process_paper is a thread p in Calls.  As in the plugin       *)
(* entry point (lines 328, 335) the worker a call runs on is the worker    *)
(* constructed for the call's document key, so its directories are those   *)
(* of CheckpointDir(key): calls for the same key share one worker (one     *)
(* processing_queue, one index, one marker file), calls for different      *)
(* keys use different workers.                                             *)
(*                                                                         *)
(* Fragments of one ingestion are interchangeable for every property       *)
(* checked here, so the thread pool of _process_fragments is modelled by   *)
(* counters (submitted work items started, running, failed) and the index  *)
(* by the number of overview and fragment records it holds per key.        *)
(***************************************************************************)
EXTENDS Integers, FiniteSets, Sequences, TLC

\* ---------------------------------------------------------------- bounds
NumCalls == 2        \* process_paper calls made in one behaviour
MaxFrags == 2        \* fragments of the largest document of Spec
BigFrags == 6        \* fragments of each document of SpecPool
MaxTime == 3         \* clock ticks (poll intervals of 0.1 s) modelled
MaxTimeout == 2      \* largest timeout (in ticks) passed to wait_for_paper
MaxIdLen == 3        \* characters of the longest bare ID normalized
MaxVerLen == 1       \* digits of the longest version suffix
MaxPad == 1          \* blanks put before and after an input
MaxTurns == 3        \* turns of one session of the plugin

\* ------------------------------------------------------ program constants
MAX_HISTORY_ROUND == 5   \* line 21
MAX_WORKERS == 3     \* line 26, the size of self.thread_pool (line 80)
PoolWorkers == 10    \* line 155, max_workers of the pool that runs the commits

Calls == 1..NumCalls
Keys == {"1", "2"}                 \* normalized document keys
Dirs == Keys \cup {"base"}         \* checkpoint directories under base_dir
Statuses == {"none", "pending", "processing", "completed", "failed"}
Errors == {"none", "splitter", "empty", "overview", "fragment", "snapshot"}

VARIABLES
  pc,            \* pc[p]: position of call p in process_paper
  key,           \* key[p]: normalized arxiv_id of call p
  ret,           \* ret[p]: return value of call p ("none" while running)
  exc,           \* exc[p]: the exception call p is handling
  frags,         \* frags[p]: number of fragments the splitter returned to p
                 \* (-1: the local variable fragments is not assigned)
  started,       \* started[p]: work items of p's pool taken by a worker thread
  running,       \* running[p]: fragment commits of p executing right now
  failed,        \* failed[p]: fragment commits of p that raised
  task,          \* task[p]: the ProcessingTask object created by call p
  queue,         \* queue[d][k]: processing_queue of the worker of directory d
  marker,        \* marker[d][k]: d/<k>.processed exists
  snapshot,      \* snapshot[d][k]: d/fragments/<k>_fragments.json exists
  idxOverview,   \* idxOverview[d][k]: overview records of k in d's index
  idxFrags,      \* idxFrags[d][k]: fragment records of k in d's index
  splitterCalls, \* splitterCalls[k]: calls of the splitter for key k
  docFrags,      \* docFrags[k]: fragments of document k (the corpus)
  active,        \* calls that may be made in this behaviour
  wpc,           \* position of the thread in wait_for_paper
  wkey,          \* arxiv_id argument of wait_for_paper
  wtimeout,      \* timeout argument of wait_for_paper, in ticks
  wstart,        \* start_time of wait_for_paper
  wtask,         \* local variable task of wait_for_paper (0: None)
  wret,          \* return value of wait_for_paper
  now,           \* the clock, in ticks
  nId,           \* the bare ID the inputs of _normalize_arxiv_id are built from
  nVer,          \* the version number they are built from
  nPad,          \* blanks before and after the input
  nForm,         \* the form of the input normalized last ("none": none yet)
  nIn,           \* the input normalized last
  nOut,          \* what _normalize_arxiv_id returned for it
  tpc,           \* position of the session's turn in the plugin function
  txt,           \* txt of the turn
  history0,      \* history as the turn received it
  history,       \* the turn's variable history
  chatbot,       \* the transcript: a sequence of <<input, reply>>
  uiChatbot,     \* the transcript carried by the last update_ui
  uiHistory,     \* the history carried by the last update_ui
  storeDirs,     \* the checkpoint directories whose vector_store exists
  wdir,          \* checkpoint directory of the turn's worker
  loading,       \* worker.loading
  prompt,        \* what retrieve_and_generate returned ("none": not called)
  indexFault,    \* what the index did to the turn's retrieval
  memoryFault,   \* what the index's memory channel did to the turn's write
  modelCalls,    \* model invocations of the turn
  memWrites,     \* question/answer pairs the turn put into the memory channel
  paths          \* the path each turn of the session took, in order

callVars == <<pc, key, ret, exc, frags, started, running, failed>>
storeVars == <<task, queue, marker, snapshot, idxOverview, idxFrags, splitterCalls>>
normVars == <<nId, nVer, nPad, nForm, nIn, nOut>>
turnVars ==
  <<tpc, txt, history0, history, chatbot, uiChatbot, uiHistory, storeDirs, wdir,
    loading, prompt, indexFault, memoryFault, modelCalls, memWrites, paths>>
envVars == <<docFrags, active, normVars, turnVars>>
waitVars == <<wpc, wkey, wtimeout, wstart, wtask, wret>>
vars == <<callVars, storeVars, envVars, waitVars, now>>

NoTask == [status |-> "none", error |-> "none", fragments |-> 0]

\* every worker in the one directory base_dir, whatever its arxiv_id
CheckpointDir_base(k) == "base"

\* lines 52-62: the directories of the worker constructed for arxiv_id k
CheckpointDir(k) == k

Dir(p) == CheckpointDir(key[p])

\* the existence check left out: every call ingests
MarkerExists_never(d, k) == FALSE

\* line 189: paper_path.exists()
MarkerExists(d, k) == marker[d][k]

\* an empty fragment list let through
EmptyRejected_never(n) == FALSE

\* line 201: "if not fragments"
EmptyRejected(n) == n = 0

\* ------------------------------------------------------------------ strings
\* A Python str is a sequence of one-character strings.

Whitespace == {" "}

\* str.lower(), on the letters that occur in the inputs
LowerChar(c) ==
  CASE c = "A" -> "a" [] c = "R" -> "r" [] c = "X" -> "x" [] c = "I" -> "i"
    [] c = "V" -> "v" [] c = "O" -> "o" [] c = "G" -> "g" [] c = "W" -> "w"
    [] OTHER -> c

Lower(s) == [i \in 1..Len(s) |-> LowerChar(s[i])]

\* s.startswith(pre)
StartsWith(s, pre) == Len(pre) <= Len(s) /\ SubSeq(s, 1, Len(pre)) = pre

\* sub in s
Contains(s, sub) ==
  \E i \in 1..(Len(s) - Len(sub) + 1) : SubSeq(s, i, i + Len(sub) - 1) = sub

\* s.split(sep)[-1]: what follows the last piece cut off, scanning from the left
RECURSIVE SplitLast(_, _)
SplitLast(s, sep) ==
  IF ~Contains(s, sep) THEN s
  ELSE LET i == CHOOSE j \in 1..(Len(s) - Len(sep) + 1) :
                  /\ SubSeq(s, j, j + Len(sep) - 1) = sep
                  /\ \A h \in 1..(j - 1) : SubSeq(s, h, h + Len(sep) - 1) # sep
       IN SplitLast(SubSeq(s, i + Len(sep), Len(s)), sep)

\* s.split(sep)[0]: what precedes the first sep
SplitFirst(s, sep) ==
  IF ~Contains(s, sep) THEN s
  ELSE LET i == CHOOSE j \in 1..(Len(s) - Len(sep) + 1) :
                  /\ SubSeq(s, j, j + Len(sep) - 1) = sep
                  /\ \A h \in 1..(j - 1) : SubSeq(s, h, h + Len(sep) - 1) # sep
       IN SubSeq(s, 1, i - 1)

\* s.strip()
RECURSIVE LStrip(_)
LStrip(s) == IF s # <<>> /\ Head(s) \in Whitespace THEN LStrip(Tail(s)) ELSE s

RECURSIVE RStrip(_)
RStrip(s) ==
  IF s # <<>> /\ s[Len(s)] \in Whitespace THEN RStrip(SubSeq(s, 1, Len(s) - 1))
  ELSE s

Strip(s) == RStrip(LStrip(s))

\* the sequence of characters as one string value
RECURSIVE Str(_)
Str(s) == IF s = <<>> THEN "" ELSE Head(s) \o Str(Tail(s))

HostMarker == <<"a", "r", "x", "i", "v", ".", "o", "r", "g", "/">>
PdfSegment == <<"/", "p", "d", "f", "/">>
AbsSegment == <<"/", "a", "b", "s", "/">>
HttpsPrefix == <<"h", "t", "t", "p", "s", ":", "/", "/">>
VersionLetter == <<"v">>

\* the /abs/ path segment taken for every URL, also for a /pdf/ URL
UrlTail_absOnly(s) == SplitLast(s, AbsSegment)

\* lines 251-254: the part of a URL after /pdf/, or else after /abs/
UrlTail(s) ==
  IF Contains(s, PdfSegment) THEN SplitLast(s, PdfSegment)
  ELSE SplitLast(s, AbsSegment)

\* lines 248-256: _normalize_arxiv_id
Normalize(s) ==
  IF Contains(Lower(s), HostMarker)
    THEN Strip(SplitFirst(UrlTail(s), VersionLetter))
    ELSE Strip(SplitFirst(s, VersionLetter))

InitStore ==
  /\ pc = [p \in Calls |-> "idle"]
  /\ key = [p \in Calls |-> "1"]
  /\ ret = [p \in Calls |-> "none"]
  /\ exc = [p \in Calls |-> "none"]
  /\ frags = [p \in Calls |-> -1]
  /\ started = [p \in Calls |-> 0]
  /\ running = [p \in Calls |-> 0]
  /\ failed = [p \in Calls |-> 0]
  /\ task = [p \in Calls |-> NoTask]
  /\ queue = [d \in Dirs |-> [k \in Keys |-> 0]]
  /\ marker = [d \in Dirs |-> [k \in Keys |-> FALSE]]
  /\ snapshot = [d \in Dirs |-> [k \in Keys |-> FALSE]]
  /\ idxOverview = [d \in Dirs |-> [k \in Keys |-> 0]]
  /\ idxFrags = [d \in Dirs |-> [k \in Keys |-> 0]]
  /\ splitterCalls = [k \in Keys |-> 0]

InitWait ==
  /\ wpc = "idle"
  /\ wkey = "1"
  /\ wtimeout = 0
  /\ wstart = 0
  /\ wtask = 0
  /\ wret = "none"
  /\ now = 0

\* _normalize_arxiv_id has not been applied
InitNorm ==
  /\ nId = <<>>
  /\ nVer = <<>>
  /\ nPad = <<0, 0>>
  /\ nForm = "none"
  /\ nIn = <<>>
  /\ nOut = <<>>

\* no turn of the plugin has been made
InitSession ==
  /\ tpc = "idle"
  /\ txt = <<>>
  /\ history0 = <<>>
  /\ history = <<>>
  /\ chatbot = <<>>
  /\ uiChatbot = <<>>
  /\ uiHistory = <<>>
  /\ storeDirs = {}
  /\ wdir = "base"
  /\ loading = FALSE
  /\ prompt = "none"
  /\ indexFault = "none"
  /\ memoryFault = "none"
  /\ modelCalls = 0
  /\ memWrites = 0
  /\ paths = <<>>

Init ==
  /\ InitStore
  /\ InitWait
  /\ InitNorm
  /\ InitSession
  /\ docFrags = [k \in Keys |-> IF k = "1" THEN MaxFrags ELSE 1]
  /\ active = Calls

\* ------------------------------------------------------------ process_paper

\* lines 181-191: entry; the argument is normalized to key k (line 184) and
\* an existing marker ends the call with True
CheckMarker(p) ==
  /\ p \in active
  /\ pc[p] = "idle"
  /\ \E k \in Keys :
       /\ key' = [key EXCEPT ![p] = k]
       /\ IF MarkerExists(CheckpointDir(k), k)
            THEN /\ pc' = [pc EXCEPT ![p] = "done"]
                 /\ ret' = [ret EXCEPT ![p] = "True"]
            ELSE /\ pc' = [pc EXCEPT ![p] = "create"]
                 /\ UNCHANGED ret
  /\ UNCHANGED <<exc, frags, started, running, failed>>
  /\ UNCHANGED <<storeVars, envVars, waitVars, now>>

\* lines 194-195: a new task object, pending, replaces the queue's entry
CreateTask(p) ==
  /\ pc[p] = "create"
  /\ task' = [task EXCEPT ![p] = [NoTask EXCEPT !.status = "pending"]]
  /\ queue' = [queue EXCEPT ![Dir(p)][key[p]] = p]
  /\ pc' = [pc EXCEPT ![p] = "setproc"]
  /\ UNCHANGED <<key, ret, exc, frags, started, running, failed>>
  /\ UNCHANGED <<marker, snapshot, idxOverview, idxFrags, splitterCalls>>
  /\ UNCHANGED <<envVars, waitVars, now>>

\* line 196
SetProcessing(p) ==
  /\ pc[p] = "setproc"
  /\ task' = [task EXCEPT ![p].status = "processing"]
  /\ pc' = [pc EXCEPT ![p] = "split"]
  /\ UNCHANGED <<key, ret, exc, frags, started, running, failed>>
  /\ UNCHANGED <<queue, marker, snapshot, idxOverview, idxFrags, splitterCalls>>
  /\ UNCHANGED <<envVars, waitVars, now>>

\* lines 199-204: the splitter raises, or returns n fragments; n = 0 raises
\* ValueError
SplitResult(p, n) ==
  /\ frags' = [frags EXCEPT ![p] = n]
  /\ IF EmptyRejected(n)
       THEN /\ exc' = [exc EXCEPT ![p] = "empty"]
            /\ pc' = [pc EXCEPT ![p] = "except"]
       ELSE /\ pc' = [pc EXCEPT ![p] = "overview"]
            /\ UNCHANGED exc

Split(p) ==
  /\ pc[p] = "split"
  /\ splitterCalls' = [splitterCalls EXCEPT ![key[p]] = @ + 1]
  /\ \/ /\ exc' = [exc EXCEPT ![p] = "splitter"]
        /\ pc' = [pc EXCEPT ![p] = "except"]
        /\ UNCHANGED frags
     \/ \E n \in {0, docFrags[key[p]]} : SplitResult(p, n)
  /\ UNCHANGED <<key, ret, started, running, failed>>
  /\ UNCHANGED <<task, queue, marker, snapshot, idxOverview, idxFrags>>
  /\ UNCHANGED <<envVars, waitVars, now>>

\* the overview commit left out: the call goes straight to the fragments
Overview_skipped(p) ==
  /\ pc[p] = "overview"
  /\ pc' = [pc EXCEPT ![p] = "pool"]
  /\ UNCHANGED <<key, ret, exc, frags, started, running, failed>>
  /\ UNCHANGED <<storeVars, envVars, waitVars, now>>

\* lines 127-160, 177-179: _process_fragments up to the submission of the
\* fragments.  No fragments: return at once (lines 129-131).  The overview
\* commit either adds the record, after which a pool of its own is opened for
\* this call and every fragment submitted to it, or raises, which is logged
\* and raised again.
OverviewRaises(p) ==
  /\ exc' = [exc EXCEPT ![p] = "overview"]
  /\ pc' = [pc EXCEPT ![p] = "except"]
  /\ UNCHANGED idxOverview

Overview(p) ==
  /\ pc[p] = "overview"
  /\ IF frags[p] = 0
       THEN /\ pc' = [pc EXCEPT ![p] = "touch"]
            /\ UNCHANGED <<exc, idxOverview>>
       ELSE \/ /\ idxOverview' = [idxOverview EXCEPT ![Dir(p)][key[p]] = @ + 1]
               /\ pc' = [pc EXCEPT ![p] = "pool"]
               /\ UNCHANGED exc
            \/ OverviewRaises(p)
  /\ UNCHANGED <<key, ret, frags, started, running, failed>>
  /\ UNCHANGED <<task, queue, marker, snapshot, idxFrags, splitterCalls>>
  /\ UNCHANGED <<envVars, waitVars, now>>

\* line 155: a worker thread of p's pool is free to take a work item
WorkerFree(p) == running[p] < PoolWorkers

\* lines 106-119: a pool thread takes the next submitted fragment
StartFragment(p) ==
  /\ pc[p] = "pool"
  /\ started[p] < frags[p]
  /\ WorkerFree(p)
  /\ started' = [started EXCEPT ![p] = @ + 1]
  /\ running' = [running EXCEPT ![p] = @ + 1]
  /\ UNCHANGED <<pc, key, ret, exc, frags, failed>>
  /\ UNCHANGED <<storeVars, envVars, waitVars, now>>

\* lines 120-121: add_text_to_vector_store succeeds
CommitFragment(p) ==
  /\ pc[p] = "pool"
  /\ running[p] > 0
  /\ idxFrags' = [idxFrags EXCEPT ![Dir(p)][key[p]] = @ + 1]
  /\ running' = [running EXCEPT ![p] = @ - 1]
  /\ UNCHANGED <<pc, key, ret, exc, frags, started, failed>>
  /\ UNCHANGED <<task, queue, marker, snapshot, idxOverview, splitterCalls>>
  /\ UNCHANGED <<envVars, waitVars, now>>

\* future.result() not guarded: the first failed commit aborts the ingestion
FailFragment_abort(p) ==
  /\ pc[p] = "pool"
  /\ running[p] > 0
  /\ failed' = [failed EXCEPT ![p] = @ + 1]
  /\ running' = [running EXCEPT ![p] = @ - 1]
  /\ exc' = [exc EXCEPT ![p] = "fragment"]
  /\ pc' = [pc EXCEPT ![p] = "except"]
  /\ UNCHANGED <<key, ret, frags, started>>
  /\ UNCHANGED <<storeVars, envVars, waitVars, now>>

\* lines 123-125, 164-167: add_text_to_vector_store raises; the exception is
\* kept in the future and only logged when future.result() raises it again
FailFragment(p) ==
  /\ pc[p] = "pool"
  /\ running[p] > 0
  /\ failed' = [failed EXCEPT ![p] = @ + 1]
  /\ running' = [running EXCEPT ![p] = @ - 1]
  /\ UNCHANGED <<pc, key, ret, exc, frags, started>>
  /\ UNCHANGED <<storeVars, envVars, waitVars, now>>

\* the pool not joined (shutdown without waiting)
AllFuturesDone_nowait(p) == TRUE

\* lines 163-169: every future has a result and the with block has shut the
\* pool down
AllFuturesDone(p) == started[p] = frags[p] /\ running[p] = 0

Join(p) ==
  /\ pc[p] = "pool"
  /\ AllFuturesDone(p)
  /\ pc' = [pc EXCEPT ![p] = "snapshot"]
  /\ UNCHANGED <<key, ret, exc, frags, started, running, failed>>
  /\ UNCHANGED <<storeVars, envVars, waitVars, now>>

\* a failed snapshot write only logged, not raised again
SnapshotRaises_swallowed(p) ==
  /\ pc' = [pc EXCEPT ![p] = "touch"]
  /\ UNCHANGED <<exc, snapshot>>

\* lines 171-179: save_fragments_to_file writes the snapshot or raises
SnapshotRaises(p) ==
  /\ exc' = [exc EXCEPT ![p] = "snapshot"]
  /\ pc' = [pc EXCEPT ![p] = "except"]
  /\ UNCHANGED snapshot

Snapshot(p) ==
  /\ pc[p] = "snapshot"
  /\ \/ /\ snapshot' = [snapshot EXCEPT ![Dir(p)][key[p]] = TRUE]
        /\ pc' = [pc EXCEPT ![p] = "touch"]
        /\ UNCHANGED exc
     \/ SnapshotRaises(p)
  /\ UNCHANGED <<key, ret, frags, started, running, failed>>
  /\ UNCHANGED <<task, queue, marker, idxOverview, idxFrags, splitterCalls>>
  /\ UNCHANGED <<envVars, waitVars, now>>

\* the marker file never created
Touch_missing(p) ==
  /\ pc[p] = "touch"
  /\ pc' = [pc EXCEPT ![p] = "complete"]
  /\ UNCHANGED <<key, ret, exc, frags, started, running, failed>>
  /\ UNCHANGED <<storeVars, envVars, waitVars, now>>

\* line 210: paper_path.touch()
Touch(p) ==
  /\ pc[p] = "touch"
  /\ marker' = [marker EXCEPT ![Dir(p)][key[p]] = TRUE]
  /\ pc' = [pc EXCEPT ![p] = "complete"]
  /\ UNCHANGED <<key, ret, exc, frags, started, running, failed>>
  /\ UNCHANGED <<task, queue, snapshot, idxOverview, idxFrags, splitterCalls>>
  /\ UNCHANGED <<envVars, waitVars, now>>

\* line 211: the call's own task object
SetCompleted(p) ==
  /\ pc[p] = "complete"
  /\ task' = [task EXCEPT ![p].status = "completed"]
  /\ pc' = [pc EXCEPT ![p] = "attach"]
  /\ UNCHANGED <<key, ret, exc, frags, started, running, failed>>
  /\ UNCHANGED <<queue, marker, snapshot, idxOverview, idxFrags, splitterCalls>>
  /\ UNCHANGED <<envVars, waitVars, now>>

\* lines 212-215
AttachFragments(p) ==
  /\ pc[p] = "attach"
  /\ task' = [task EXCEPT ![p].fragments = frags[p]]
  /\ pc' = [pc EXCEPT ![p] = "done"]
  /\ ret' = [ret EXCEPT ![p] = "True"]
  /\ UNCHANGED <<key, exc, frags, started, running, failed>>
  /\ UNCHANGED <<queue, marker, snapshot, idxOverview, idxFrags, splitterCalls>>
  /\ UNCHANGED <<envVars, waitVars, now>>

\* lines 217-220: the handler marks the task the queue holds NOW for the key
ExceptStatus(p) ==
  /\ pc[p] = "except"
  /\ LET t == queue[Dir(p)][key[p]] IN
       IF t # 0
         THEN /\ task' = [task EXCEPT ![t].status = "failed"]
              /\ pc' = [pc EXCEPT ![p] = "except_error"]
              /\ UNCHANGED ret
         ELSE /\ pc' = [pc EXCEPT ![p] = "done"]
              /\ ret' = [ret EXCEPT ![p] = "False"]
              /\ UNCHANGED task
  /\ UNCHANGED <<key, exc, frags, started, running, failed>>
  /\ UNCHANGED <<queue, marker, snapshot, idxOverview, idxFrags, splitterCalls>>
  /\ UNCHANGED <<envVars, waitVars, now>>

\* lines 221-222
ExceptError(p) ==
  /\ pc[p] = "except_error"
  /\ task' = [task EXCEPT ![queue[Dir(p)][key[p]]].error = exc[p]]
  /\ pc' = [pc EXCEPT ![p] = "done"]
  /\ ret' = [ret EXCEPT ![p] = "False"]
  /\ UNCHANGED <<key, exc, frags, started, running, failed>>
  /\ UNCHANGED <<queue, marker, snapshot, idxOverview, idxFrags, splitterCalls>>
  /\ UNCHANGED <<envVars, waitVars, now>>

ProcessPaper(p) ==
  \/ CheckMarker(p)
  \/ CreateTask(p)
  \/ SetProcessing(p)
  \/ Split(p)
  \/ Overview(p)
  \/ StartFragment(p)
  \/ CommitFragment(p)
  \/ FailFragment(p)
  \/ Join(p)
  \/ Snapshot(p)
  \/ Touch(p)
  \/ SetCompleted(p)
  \/ AttachFragments(p)
  \/ ExceptStatus(p)
  \/ ExceptError(p)

Next == \E p \in Calls : ProcessPaper(p)

Spec == Init /\ [][Next]_vars

\* process_paper calls on a worker made one at a time: a call is made, and
\* runs, only while no other call is in progress
NextSeq ==
  \E p \in Calls :
    /\ \A q \in Calls \ {p} : pc[q] \in {"idle", "done"}
    /\ ProcessPaper(p)

SpecSeq == Init /\ [][NextSeq]_vars

\* Two documents of BigFrags fragments each, ingested by concurrent calls
InitPool ==
  /\ InitStore
  /\ InitWait
  /\ InitSession
  /\ InitNorm
  /\ docFrags = [k \in Keys |-> BigFrags]
  /\ active = Calls

SpecPool == InitPool /\ [][Next]_vars

\* ----------------------------------------------------------- wait_for_paper

\* lines 1-9: the module imports no name "time" (datetime is imported from
\* datetime, nothing else binds time), so evaluating time.sleep raises
\* NameError
TimeModuleBound == FALSE

Elapsed == now - wstart

\* lines 223-226: wait_for_paper(k, t) on the worker of key k
WaitStart ==
  /\ wpc = "idle"
  /\ \E k \in Keys : wkey' = k
  /\ \E t \in 0..MaxTimeout : wtimeout' = t
  /\ wstart' = now
  /\ wpc' = "get"
  /\ UNCHANGED <<wtask, wret, now>>
  /\ UNCHANGED <<callVars, storeVars, envVars>>

\* lines 228-230
WaitGet ==
  /\ wpc = "get"
  /\ wtask' = queue[CheckpointDir(wkey)][wkey]
  /\ IF wtask' = 0
       THEN wpc' = "done" /\ wret' = "False"
       ELSE wpc' = "check_completed" /\ UNCHANGED wret
  /\ UNCHANGED <<wkey, wtimeout, wstart, now>>
  /\ UNCHANGED <<callVars, storeVars, envVars>>

\* lines 232-233
WaitCheckCompleted ==
  /\ wpc = "check_completed"
  /\ IF task[wtask].status = "completed"
       THEN wpc' = "done" /\ wret' = "True"
       ELSE wpc' = "check_failed" /\ UNCHANGED wret
  /\ UNCHANGED <<wkey, wtimeout, wstart, wtask, now>>
  /\ UNCHANGED <<callVars, storeVars, envVars>>

\* lines 235-236
WaitCheckFailed ==
  /\ wpc = "check_failed"
  /\ IF task[wtask].status = "failed"
       THEN wpc' = "done" /\ wret' = "False"
       ELSE wpc' = "check_timeout" /\ UNCHANGED wret
  /\ UNCHANGED <<wkey, wtimeout, wstart, wtask, now>>
  /\ UNCHANGED <<callVars, storeVars, envVars>>

\* lines 238-241
WaitCheckTimeout ==
  /\ wpc = "check_timeout"
  /\ IF Elapsed > wtimeout
       THEN wpc' = "done" /\ wret' = "False"
       ELSE wpc' = "sleep" /\ UNCHANGED wret
  /\ UNCHANGED <<wkey, wtimeout, wstart, wtask, now>>
  /\ UNCHANGED <<callVars, storeVars, envVars>>

\* lines 243-246: time.sleep(0.1) sleeps one poll interval and the loop goes
\* round, if the name time is bound; otherwise the NameError is caught by the
\* handler of line 244, which returns False
WaitSleep ==
  /\ wpc = "sleep"
  /\ IF TimeModuleBound
       THEN wpc' = "get" /\ now' = now + 1 /\ UNCHANGED wret
       ELSE wpc' = "done" /\ wret' = "False" /\ UNCHANGED now
  /\ UNCHANGED <<wkey, wtimeout, wstart, wtask>>
  /\ UNCHANGED <<callVars, storeVars, envVars>>

WaitForPaper ==
  \/ WaitStart
  \/ WaitGet
  \/ WaitCheckCompleted
  \/ WaitCheckFailed
  \/ WaitCheckTimeout
  \/ WaitSleep

\* time passes while wait_for_paper has not returned
Tick ==
  /\ wpc # "done"
  /\ now < MaxTime
  /\ now' = now + 1
  /\ UNCHANGED <<callVars, storeVars, envVars, waitVars>>

\* One call of process_paper and, on another thread, one wait_for_paper
InitWaiting ==
  /\ InitStore
  /\ InitWait
  /\ InitSession
  /\ InitNorm
  /\ docFrags = [k \in Keys |-> IF k = "1" THEN MaxFrags ELSE 1]
  /\ active = {1}

NextWait ==
  \/ \E p \in Calls : ProcessPaper(p)
  \/ WaitForPaper
  \/ Tick

SpecWait == InitWaiting /\ [][NextWait]_vars

\* ------------------------------------------------------ _normalize_arxiv_id

IdChars == {"1", "2", ".", "/", "h"}
VerChars == {"1", "2"}

\* the sequences over S of length lo..hi
SeqsOf(S, lo, hi) == UNION {[1..n -> S] : n \in lo..hi}

\* strings without blanks and without the letter v in which a path segment
\* of the URL forms occurs
PdfStart == <<"p", "d", "f", "/">>
PathIds ==
  {<<"1">> \o g \o <<"2">> : g \in {AbsSegment, PdfSegment}} \cup {PdfStart \o <<"1">>}

BareIds == SeqsOf(IdChars, 1, MaxIdLen) \cup PathIds
Versions == SeqsOf(VerChars, 1, MaxVerLen)
Forms == {"id", "id_v", "abs", "abs_v", "pdf", "pdf_v"}

Blanks(n) == [i \in 1..n |-> " "]

\* the six ways of referring to version ver of document id
FormOf(f, id, ver) ==
  CASE f = "id" -> id
    [] f = "id_v" -> id \o VersionLetter \o ver
    [] f = "abs" -> HttpsPrefix \o SubSeq(HostMarker, 1, 9) \o AbsSegment \o id
    [] f = "abs_v" -> HttpsPrefix \o SubSeq(HostMarker, 1, 9) \o AbsSegment
                        \o id \o VersionLetter \o ver
    [] f = "pdf" -> HttpsPrefix \o SubSeq(HostMarker, 1, 9) \o PdfSegment \o id
    [] f = "pdf_v" -> HttpsPrefix \o SubSeq(HostMarker, 1, 9) \o PdfSegment
                        \o id \o VersionLetter \o ver

InitNormalize ==
  /\ InitStore
  /\ InitWait
  /\ InitSession
  /\ docFrags = [k \in Keys |-> 1]
  /\ active = {}
  /\ nId \in BareIds
  /\ nVer \in Versions
  /\ nPad \in (0..MaxPad) \X (0..MaxPad)
  /\ nForm = "none"
  /\ nIn = <<>>
  /\ nOut = <<>>

\* one application of _normalize_arxiv_id to a form of the document reference
NormalizeInput ==
  /\ \E f \in Forms :
       /\ nForm' = f
       /\ nIn' = Blanks(nPad[1]) \o FormOf(f, nId, nVer) \o Blanks(nPad[2])
  /\ nOut' = Normalize(nIn')
  /\ UNCHANGED <<nId, nVer, nPad>>
  /\ UNCHANGED <<callVars, storeVars, docFrags, active, turnVars, waitVars, now>>

SpecNormalize == InitNormalize /\ [][NormalizeInput]_vars

\* ------------------------------------------------- the plugin entry point
\* One session of the plugin function (lines 307-403): its turns are made
\* one after the other, each by the one driving thread of the session, and
\* each turn runs from one update_ui (a yield) to the next.

ArxivOrg == SubSeq(HostMarker, 1, 9)

\* lines 322, 331: the prefixes a document reference starts with
RefPrefixes == {HttpsPrefix \o ArxivOrg, ArxivOrg, <<"0">>, <<"1">>, <<"2">>}

\* lines 322, 331: txt.lower().strip().startswith((...))
LooksLikeRef(s) == \E pre \in RefPrefixes : StartsWith(Strip(Lower(s)), pre)

\* line 49: self.arxiv_id (the empty string for None)
WorkerId(s) == IF s = <<>> THEN <<>> ELSE Normalize(s)

\* lines 54-62: self.checkpoint_dir, as the name it has under base_dir
WorkerDir(s) == IF WorkerId(s) = <<>> THEN "base" ELSE Str(WorkerId(s))

\* lines 358-359
Truncate(h) ==
  IF Len(h) > MAX_HISTORY_ROUND * 2
    THEN SubSeq(h, Len(h) - MAX_HISTORY_ROUND * 2 + 1, Len(h))
    ELSE h

\* line 351
UserQuery ==
  "What is the main research question or problem addressed in this paper about graph attention network?"

\* the replies of lines 323, 332, 340, 379, 385 and the model's answer
AskForDocument == "ask_for_document"
Processing == "processing"
IngestFailed == "ingest_failed"
Thinking == "thinking"
SoftFailure == "soft_failure"
Response == "response"

\* the texts submitted in a session: a bare ID, a versioned /abs/ URL of the
\* same document, another bare ID, and a question
Question == <<"w", "h", "y">>
Texts ==
  {<<"1">>, ArxivOrg \o AbsSegment \o <<"1", "v", "2">>, <<"2">>, Question}

\* the history a session starts with: none, or that of an earlier chat
PriorHistories == {<<>>, [i \in 1..(MAX_HISTORY_ROUND * 2 + 1) |-> "h"]}

IndexFaults == {"none", "retrieve_raises", "build_raises", "empty_prompt"}
MemoryFaults == {"none", "raises"}

\* the prompt check left out
NoPrompt_never(pr) == FALSE

\* line 384: "if not prompt"
NoPrompt(pr) == pr = ""

\* lines 259-266: retrieve_and_generate under index fault f
RetrieveAndGenerate(f) == IF f = "none" THEN "prompt" ELSE ""

\* chatbot[-1] = e
ReplaceLast(c, e) == [c EXCEPT ![Len(c)] = e]

\* the path of the turn in progress, or of the last turn
Path == IF paths = <<>> THEN "none" ELSE paths[Len(paths)]
SetPath(x) == [paths EXCEPT ![Len(paths)] = x]

\* lines 78-79, 328: the worker of a turn is a new object, with its own
\* processing_queue; nothing of an earlier worker is running
NewWorker(d) ==
  /\ pc' = [p \in Calls |-> "idle"]
  /\ ret' = [p \in Calls |-> "none"]
  /\ exc' = [p \in Calls |-> "none"]
  /\ frags' = [p \in Calls |-> -1]
  /\ started' = [p \in Calls |-> 0]
  /\ running' = [p \in Calls |-> 0]
  /\ failed' = [p \in Calls |-> 0]
  /\ task' = [p \in Calls |-> NoTask]
  /\ queue' = [e \in Dirs |-> IF e = d THEN [k \in Keys |-> 0] ELSE queue[e]]
  /\ wpc' = "idle" /\ wret' = "none" /\ wtask' = 0
  /\ UNCHANGED <<key, wkey, wtimeout, wstart>>
  /\ UNCHANGED <<marker, snapshot, idxOverview, idxFrags, splitterCalls>>

\* lines 322-332 and 350-380: a turn up to its first update_ui
TurnStart ==
  /\ tpc = "idle"
  /\ Len(paths) < MaxTurns
  /\ \E t \in Texts : txt' = t
  /\ history0' = history
  /\ prompt' = "none" /\ indexFault' = "none" /\ memoryFault' = "none"
  /\ modelCalls' = 0 /\ memWrites' = 0
  /\ IF Len(history) = 0 /\ ~LooksLikeRef(txt')
       THEN \* lines 322-325
            /\ chatbot' = Append(chatbot, <<Str(txt'), AskForDocument>>)
            /\ uiChatbot' = chatbot' /\ uiHistory' = history
            /\ paths' = Append(paths, "prompt")
            /\ tpc' = "idle"
            /\ UNCHANGED <<history, storeDirs, wdir, loading>>
            /\ UNCHANGED <<callVars, storeVars, waitVars>>
       ELSE \* lines 327-328
            /\ wdir' = WorkerDir(txt')
            /\ loading' = (wdir' \in storeDirs)
            /\ storeDirs' = storeDirs \cup {wdir'}
            /\ NewWorker(wdir')
            /\ IF LooksLikeRef(txt') /\ ~loading'
                 THEN \* lines 331-333
                      /\ chatbot' = Append(chatbot, <<Str(txt'), Processing>>)
                      /\ uiChatbot' = chatbot' /\ uiHistory' = history
                      /\ paths' = Append(paths, "ingest")
                      /\ tpc' = "process"
                      /\ UNCHANGED history
                 ELSE \* lines 350-380
                      /\ history' = Truncate(history)
                      /\ chatbot' = Append(chatbot, <<UserQuery, Thinking>>)
                      /\ uiChatbot' = chatbot' /\ uiHistory' = history'
                      /\ paths' = Append(paths, "query")
                      /\ tpc' = "retrieve"
  /\ UNCHANGED <<docFrags, active, normVars, now>>

\* line 335: worker.process_paper(txt), on the turn's worker
TurnProcessPaper ==
  /\ tpc = "process"
  /\ pc[1] # "done"
  /\ ProcessPaper(1)
  /\ key'[1] = wdir

\* lines 336-338: worker.wait_for_paper(arxiv_id) after a True
TurnWaitForPaper ==
  /\ tpc = "process"
  /\ pc[1] = "done" /\ ret[1] = "True"
  /\ wpc # "done"
  /\ WaitForPaper
  /\ wkey' = wdir
  /\ wtimeout' = MaxTimeout

\* the failure message put into the transcript and not published
TurnIngestEnd_unpublished ==
  /\ tpc = "process"
  /\ pc[1] = "done"
  /\ ret[1] = "False" \/ wpc = "done"
  /\ IF ret[1] = "True" /\ wret = "True"
       THEN /\ paths' = SetPath("ingest_ok")
            /\ uiChatbot' = chatbot /\ uiHistory' = history
            /\ UNCHANGED chatbot
       ELSE /\ paths' = SetPath("ingest_failed")
            /\ chatbot' = ReplaceLast(chatbot, <<Str(txt), IngestFailed>>)
            /\ UNCHANGED <<uiChatbot, uiHistory>>
  /\ tpc' = "idle"
  /\ UNCHANGED <<txt, history0, history, storeDirs, wdir, loading, prompt,
                 indexFault, memoryFault, modelCalls, memWrites>>
  /\ UNCHANGED <<callVars, storeVars, docFrags, active, normVars, waitVars, now>>

\* lines 340-346: the end of the ingestion branch
TurnIngestEnd ==
  /\ tpc = "process"
  /\ pc[1] = "done"
  /\ ret[1] = "False" \/ wpc = "done"
  /\ IF ret[1] = "True" /\ wret = "True"
       THEN /\ paths' = SetPath("ingest_ok")
            /\ UNCHANGED chatbot
       ELSE /\ paths' = SetPath("ingest_failed")
            /\ chatbot' = ReplaceLast(chatbot, <<Str(txt), IngestFailed>>)
  /\ uiChatbot' = chatbot' /\ uiHistory' = history
  /\ tpc' = "idle"
  /\ UNCHANGED <<txt, history0, history, storeDirs, wdir, loading, prompt,
                 indexFault, memoryFault, modelCalls, memWrites>>
  /\ UNCHANGED <<callVars, storeVars, docFrags, active, normVars, waitVars, now>>

\* lines 383-387: retrieve_and_generate on the worker's index, and the soft
\* failure
TurnRetrieve ==
  /\ tpc = "retrieve"
  /\ \E f \in IndexFaults : indexFault' = f
  /\ prompt' = RetrieveAndGenerate(indexFault')
  /\ IF NoPrompt(prompt')
       THEN /\ chatbot' = ReplaceLast(chatbot, <<UserQuery, SoftFailure>>)
            /\ uiChatbot' = chatbot' /\ uiHistory' = history
            /\ paths' = SetPath("soft_fail")
            /\ tpc' = "idle"
       ELSE /\ tpc' = "model"
            /\ UNCHANGED <<chatbot, uiChatbot, uiHistory, paths>>
  /\ UNCHANGED <<txt, history0, history, storeDirs, wdir, loading, memoryFault,
                 modelCalls, memWrites>>
  /\ UNCHANGED <<callVars, storeVars, docFrags, active, normVars, waitVars, now>>

\* lines 390-397: the model call, which streams its answer into the last
\* transcript entry
TurnModel ==
  /\ tpc = "model"
  /\ modelCalls' = modelCalls + 1
  /\ chatbot' = ReplaceLast(chatbot, <<UserQuery, Response>>)
  /\ uiChatbot' = chatbot' /\ uiHistory' = history
  /\ tpc' = "remember"
  /\ UNCHANGED <<txt, history0, history, storeDirs, wdir, loading, prompt,
                 indexFault, memoryFault, memWrites, paths>>
  /\ UNCHANGED <<callVars, storeVars, docFrags, active, normVars, waitVars, now>>

\* a failed memory write ends the turn where it is
TurnRemember_abort ==
  /\ tpc = "remember"
  /\ \E m \in MemoryFaults : memoryFault' = m
  /\ IF memoryFault' = "none"
       THEN /\ memWrites' = memWrites + 1
            /\ history' = history \o <<UserQuery, Response>>
            /\ uiChatbot' = chatbot /\ uiHistory' = history'
       ELSE UNCHANGED <<memWrites, history, uiChatbot, uiHistory>>
  /\ paths' = SetPath("query_ok")
  /\ tpc' = "idle"
  /\ UNCHANGED <<txt, history0, chatbot, storeDirs, wdir, loading, prompt,
                 indexFault, modelCalls>>
  /\ UNCHANGED <<callVars, storeVars, docFrags, active, normVars, waitVars, now>>

\* lines 400-403 and 268-273: remember_qa, which swallows what the memory
\* channel raises, then history.extend and the last update_ui
TurnRemember ==
  /\ tpc = "remember"
  /\ \E m \in MemoryFaults : memoryFault' = m
  /\ memWrites' = IF memoryFault' = "none" THEN memWrites + 1 ELSE memWrites
  /\ history' = history \o <<UserQuery, Response>>
  /\ uiChatbot' = chatbot /\ uiHistory' = history'
  /\ paths' = SetPath("query_ok")
  /\ tpc' = "idle"
  /\ UNCHANGED <<txt, history0, chatbot, storeDirs, wdir, loading, prompt,
                 indexFault, modelCalls>>
  /\ UNCHANGED <<callVars, storeVars, docFrags, active, normVars, waitVars, now>>

InitTurn ==
  /\ InitStore
  /\ InitWait
  /\ InitNorm
  /\ tpc = "idle"
  /\ txt = <<>>
  /\ history \in PriorHistories
  /\ history0 = history
  /\ chatbot = <<>>
  /\ uiChatbot = <<>>
  /\ uiHistory = history
  /\ storeDirs = {}
  /\ wdir = "base"
  /\ loading = FALSE
  /\ prompt = "none"
  /\ indexFault = "none"
  /\ memoryFault = "none"
  /\ modelCalls = 0
  /\ memWrites = 0
  /\ paths = <<>>
  /\ docFrags = [k \in Keys |-> IF k = "1" THEN MaxFrags ELSE 1]
  /\ active = {1}

NextTurn ==
  \/ TurnStart
  \/ TurnProcessPaper
  \/ TurnWaitForPaper
  \/ TurnIngestEnd
  \/ TurnRetrieve
  \/ TurnModel
  \/ TurnRemember

SpecTurn == InitTurn /\ [][NextTurn]_vars

\* ------------------------------------------------------------------ claims

\* calls that have been made on the worker and key of call p, p apart
Others(p) == {q \in Calls \ {p} : pc[q] # "idle" /\ key[q] = key[p]}

Alone(p) == Others(p) = {}

\* call p is past paper_path.touch() of its own ingestion
Touched(p) ==
  /\ pc[p] \in {"complete", "attach", "done"}
  /\ frags[p] >= 0
  /\ exc[p] = "none"

\* C1: a call of process_paper that finds the completion marker of its key
\* returns True in that very step, creating no task, calling neither the
\* splitter nor the index and leaving marker, snapshot and queue as they are.
C1_IdempotentReingest ==
  [][\A p \in Calls :
       (pc[p] = "idle" /\ pc'[p] # "idle"
          /\ marker[CheckpointDir(key'[p])][key'[p]])
         => /\ pc'[p] = "done"
            /\ ret'[p] = "True"
            /\ task'[p] = NoTask
            /\ frags'[p] = -1 /\ started'[p] = 0
            /\ UNCHANGED storeVars]_vars

\* a second call for a key returned at once after a first one completed
C1_Witness ==
  \E p, q \in Calls :
    /\ p # q /\ key[p] = key[q]
    /\ pc[q] = "done" /\ ret[q] = "True" /\ task[q].status = "completed"
    /\ pc[p] = "done" /\ ret[p] = "True" /\ task[p] = NoTask
    /\ splitterCalls[key[p]] = 1
    /\ idxOverview[Dir(p)][key[p]] = 1

\* C2 (as claimed): whenever the marker of k exists the index holds k's
\* overview record and every fragment of k.
C2_MarkerImpliesAllFragments ==
  \A d \in Dirs, k \in Keys :
    marker[d][k] => idxOverview[d][k] >= 1 /\ idxFrags[d][k] >= docFrags[k]

\* C2 (amended): whenever the marker of k exists, an ingestion of k wrote it
\* after its overview record was committed and every one of its fragment
\* commits had finished, and the index holds every fragment of k whose commit
\* did not raise.
C2_MarkerImpliesCommitted ==
  \A d \in Dirs, k \in Keys :
    marker[d][k] =>
      \E p \in Calls :
        /\ Touched(p) /\ Dir(p) = d /\ key[p] = k
        /\ frags[p] = docFrags[k]
        /\ started[p] = frags[p] /\ running[p] = 0
        /\ idxOverview[d][k] >= 1
        /\ idxFrags[d][k] >= frags[p] - failed[p]

\* the marker exists although a fragment commit of its ingestion raised
C2_Witness ==
  \E p \in Calls :
    /\ Touched(p) /\ marker[Dir(p)][key[p]]
    /\ failed[p] >= 1
    /\ idxFrags[Dir(p)][key[p]] < docFrags[key[p]]

\* C3: an ingestion of N >= 1 fragments (the only one on its key) in which
\* exactly one fragment commit raises and nothing else does: every fragment
\* commit was attempted, the index holds the overview and N-1 fragment
\* records, process_paper returned True, the task is completed and the
\* marker is written.
C3_PartialFailureIsolation ==
  \A p \in Calls :
    ( /\ pc[p] = "done" /\ Alone(p)
      /\ frags[p] >= 1 /\ failed[p] = 1
      /\ exc[p] \notin {"splitter", "empty", "overview", "snapshot"} )
    => /\ started[p] = frags[p] /\ running[p] = 0
       /\ idxOverview[Dir(p)][key[p]] = 1
       /\ idxFrags[Dir(p)][key[p]] = frags[p] - 1
       /\ ret[p] = "True"
       /\ task[p].status = "completed"
       /\ marker[Dir(p)][key[p]]

\* a two-fragment ingestion has returned with one commit failed
C3_Witness ==
  \E p \in Calls :
    /\ pc[p] = "done" /\ Alone(p)
    /\ frags[p] = MaxFrags /\ failed[p] = 1 /\ exc[p] = "none"
    /\ idxFrags[Dir(p)][key[p]] = MaxFrags - 1

\* C4: an ingestion (the only one on its key) whose splitter raised or
\* returned no fragment writes no overview record, no fragment record, no
\* snapshot and no marker, and once it has returned it returned False with
\* its task failed and the error recorded.
C4_FatalDocumentErrors ==
  \A p \in Calls :
    ( /\ pc[p] # "idle" /\ Alone(p)
      /\ (exc[p] = "splitter" \/ frags[p] = 0) )
    => /\ idxOverview[Dir(p)][key[p]] = 0
       /\ idxFrags[Dir(p)][key[p]] = 0
       /\ ~snapshot[Dir(p)][key[p]]
       /\ ~marker[Dir(p)][key[p]]
       /\ pc[p] \in {"except", "except_error", "done"}
       /\ pc[p] = "done" =>
            /\ ret[p] = "False"
            /\ task[p].status = "failed"
            /\ task[p].error = (IF frags[p] = 0 THEN "empty" ELSE "splitter")
            /\ task[p].fragments = 0

\* one ingestion has failed on a raising splitter, another on an empty result
C4_Witness ==
  \E p, q \in Calls :
    /\ pc[p] = "done" /\ exc[p] = "splitter" /\ ret[p] = "False"
    /\ pc[q] = "done" /\ frags[q] = 0 /\ ret[q] = "False"
    /\ key[p] # key[q]

\* C5: the index of a worker holds an overview record of k for every
\* ingestion of k that has started a fragment commit, and an ingestion whose
\* overview commit raised starts no fragment commit and writes no marker.
C5_OverviewFirst ==
  /\ \A d \in Dirs, k \in Keys :
       idxOverview[d][k] >=
         Cardinality({p \in Calls : /\ pc[p] # "idle" /\ Dir(p) = d
                                    /\ key[p] = k /\ started[p] > 0})
  /\ \A p \in Calls :
       exc[p] = "overview" =>
         /\ started[p] = 0 /\ running[p] = 0
         /\ pc[p] \in {"except", "except_error", "done"}
         /\ ret[p] # "True"
         /\ Alone(p) => ~marker[Dir(p)][key[p]] /\ idxFrags[Dir(p)][key[p]] = 0

\* one ingestion is committing fragments, another failed on its overview
C5_Witness ==
  \E p, q \in Calls :
    /\ started[p] > 0 /\ running[p] > 0 /\ idxOverview[Dir(p)][key[p]] >= 1
    /\ exc[q] = "overview" /\ pc[q] = "done"

\* C6: the step that writes the marker is taken by an ingestion none of
\* whose fragment commits is pending or running and whose snapshot file
\* exists; the marker appears in no other step; and an ingestion whose
\* snapshot write raised never changes the marker.
C6_MarkerLast ==
  [][/\ \A p \in Calls :
          (pc[p] = "touch" /\ pc'[p] # "touch")
            => /\ started[p] = frags[p] /\ running[p] = 0
               /\ snapshot[Dir(p)][key[p]]
     /\ \A d \in Dirs, k \in Keys :
          (~marker[d][k] /\ marker'[d][k])
            => \E p \in Calls : /\ pc[p] = "touch" /\ pc'[p] = "complete"
                                /\ Dir(p) = d /\ key[p] = k
     /\ \A p \in Calls :
          (exc[p] = "snapshot" /\ pc'[p] # pc[p]) => marker' = marker]_vars

\* one ingestion has just written its marker, another failed on its snapshot
C6_Witness ==
  \E p, q \in Calls :
    /\ pc[p] = "complete" /\ marker[Dir(p)][key[p]] /\ failed[p] >= 1
    /\ exc[q] = "snapshot" /\ pc[q] = "done" /\ ~marker[Dir(q)][key[q]]

RECURSIVE SumRunning(_)
SumRunning(S) ==
  IF S = {} THEN 0
  ELSE LET p == CHOOSE x \in S : TRUE IN running[p] + SumRunning(S \ {p})

\* fragment commits executing right now, over all ingestions
TotalRunning == SumRunning(Calls)

\* C7 (as claimed): the fragment commits executing at one moment, summed over
\* all ingestions in progress, never exceed the bound of a pool (taken here
\* as the larger of the program's two pool sizes).
C7_SystemWideBound ==
  TotalRunning <= (IF PoolWorkers > MAX_WORKERS THEN PoolWorkers ELSE MAX_WORKERS)

\* C8 (as claimed): a task that is completed or failed never changes its
\* status again, also when several calls for one key run on one worker.
C8_TerminalOnce ==
  [][\A p \in Calls :
       task[p].status \in {"completed", "failed"}
         => task'[p].status = task[p].status]_vars

\* C9 (as claimed): wait_for_paper returns only on observing a completed
\* task (True), a failed task (False), an unknown key (False) or an elapsed
\* timeout (False).
C9_WaitResult ==
  [][(wpc # "done" /\ wpc' = "done")
       => \/ wtask' = 0 /\ wret' = "False"
          \/ wtask' # 0 /\ task[wtask'].status = "completed" /\ wret' = "True"
          \/ wtask' # 0 /\ task[wtask'].status = "failed" /\ wret' = "False"
          \/ Elapsed > wtimeout /\ wret' = "False"]_vars

\* C10 (as claimed): a wait_for_paper that has returned on a task that is
\* still not terminal returned False, and only after the timeout had elapsed.
C10_BoundedWait ==
  (wpc = "done" /\ wtask # 0 /\ task[wtask].status \in {"pending", "processing"})
    => wret = "False" /\ Elapsed > wtimeout

\* the turn is in its query branch, between the update_ui of line 380 and
\* its end
Querying == tpc \in {"retrieve", "model", "remember"}

\* C11 (as claimed): in a turn whose text looks like a document reference,
\* ingestion is run exactly when the marker of the normalized key is absent:
\* the query branch is taken only with the marker present, and process_paper
\* is about to run only with the marker absent.
C11_IngestionByMarker ==
  LooksLikeRef(txt) =>
    LET k == WorkerDir(txt) IN
      /\ tpc = "retrieve" => marker[CheckpointDir(k)][k]
      /\ (tpc = "process" /\ pc[1] = "idle") => ~marker[CheckpointDir(k)][k]

\* the keys whose ingestion has completed
IngestedKeys == {k \in Keys : marker[CheckpointDir(k)][k]}

\* C12 (as claimed): once key k, and no other, has been ingested, a query
\* turn retrieves from, and writes memory to, the index of k's directory,
\* whatever its text.
C12_QueriesHitIngestedStore ==
  \A k \in Keys :
    (IngestedKeys = {k} /\ Querying) => wdir = CheckpointDir(k)

\* C13: when the retrieve call or the prompt-build call raises,
\* retrieve_and_generate returns the empty string, and the turn has ended:
\* its transcript entry holds the failure message, the transcript and the
\* history have been published as they are, the model was not invoked, no
\* memory was written and the history is the one the turn began with
\* (truncated).
C13_RetrievalSoftFailure ==
  indexFault \in {"retrieve_raises", "build_raises"} =>
    /\ prompt = ""
    /\ tpc = "idle" /\ Path = "soft_fail"
    /\ Len(chatbot) = Len(paths)
    /\ chatbot[Len(chatbot)] = <<UserQuery, SoftFailure>>
    /\ uiChatbot = chatbot /\ uiHistory = history
    /\ modelCalls = 0 /\ memWrites = 0
    /\ history = Truncate(history0)

\* the retrieve call has raised in a turn after the first
C13_Witness ==
  /\ indexFault = "retrieve_raises" /\ prompt = ""
  /\ tpc = "idle" /\ Path = "soft_fail" /\ Len(paths) >= 2
  /\ chatbot[Len(chatbot)][2] = SoftFailure

\* C14: the model is invoked at most once in a turn, and a query turn whose
\* prompt was assembled ends, whether the memory write raised or not, with
\* the model invoked exactly once, [query, response] appended to the history
\* and the transcript and that history published; memory holds the pair
\* exactly when the write did not raise.
C14_BestEffortMemory ==
  /\ modelCalls <= 1
  /\ (prompt = "prompt" /\ tpc = "idle") =>
       /\ Path = "query_ok"
       /\ modelCalls = 1
       /\ history = Truncate(history0) \o <<UserQuery, Response>>
       /\ uiHistory = history /\ uiChatbot = chatbot
       /\ chatbot[Len(chatbot)] = <<UserQuery, Response>>
       /\ memWrites = (IF memoryFault = "raises" THEN 0 ELSE 1)

\* a query turn has ended after its memory write raised
C14_Witness ==
  /\ prompt = "prompt" /\ tpc = "idle"
  /\ memoryFault = "raises" /\ memWrites = 0
  /\ modelCalls = 1
  /\ Len(history) = Len(Truncate(history0)) + 2

\* C15: when a turn has ended, on whichever of the five paths, the transcript
\* and the history are those carried by its last update_ui.
C15_TurnEndsWithUiUpdate ==
  (tpc = "idle" /\ paths # <<>>) =>
    /\ Path \in {"prompt", "ingest_ok", "ingest_failed", "soft_fail", "query_ok"}
    /\ Len(chatbot) = Len(paths)
    /\ uiChatbot = chatbot /\ uiHistory = history

\* a session of a failed ingestion, an answered query and a soft failure
C15_Witness ==
  /\ tpc = "idle"
  /\ paths = <<"ingest_failed", "query_ok", "soft_fail">>
  /\ uiChatbot = chatbot /\ Len(chatbot) = 3

\* C16 (as claimed): for a bare ID s, a version number n and blanks around
\* the input, _normalize_arxiv_id returns s for each of s, s v n, the /abs/
\* URL of s, the /abs/ URL of s v n, the /pdf/ URL of s and the /pdf/ URL of
\* s v n.
C16_NormalizationEquivalence == nForm # "none" => nOut = nId

\* s holds no /abs/ and no /pdf/ and does not begin with pdf/
PlainId(s) ==
  /\ ~Contains(s, AbsSegment) /\ ~Contains(s, PdfSegment)
  /\ ~StartsWith(s, PdfStart)

\* C16 (amended): the six forms of a bare ID s normalize to s when s holds
\* neither of the segments /abs/ and /pdf/ and does not begin with pdf/.
C16_NormalizationOfPlainIds ==
  (nForm # "none" /\ PlainId(nId)) => nOut = nId

\* the versioned /abs/ URL and the versioned /pdf/ URL, blanks around them,
\* have been normalized to the bare ID
C16_Witness ==
  /\ nForm \in {"abs_v", "pdf_v"}
  /\ nPad = <<1, 1>>
  /\ Len(nIn) > Len(nId) + 20
  /\ PlainId(nId) /\ nOut = nId /\ Len(nId) >= 2

\* what one ingestion of key[p], run by itself with the same answers of the
\* splitter and the index, leaves on disk and in the index
RanPool(p) == frags[p] >= 1 /\ exc[p] \notin {"splitter", "empty", "overview"}

\* C17: nothing of key k is ever written outside the directory and index of
\* k's own worker, and once an ingestion that is the only one for its key
\* has returned, what is persisted for the key is what that ingestion leaves
\* when run by itself, whatever ingestions of other keys ran meanwhile.
C17_KeysIsolated ==
  /\ \A d \in Dirs, k \in Keys :
       d # k => /\ ~marker[d][k] /\ ~snapshot[d][k] /\ queue[d][k] = 0
                /\ idxOverview[d][k] = 0 /\ idxFrags[d][k] = 0
  /\ \A p \in Calls :
       (pc[p] = "done" /\ Alone(p)) =>
         LET k == key[p] IN
           /\ marker[k][k] = (ret[p] = "True")
           /\ snapshot[k][k] = (ret[p] = "True")
           /\ idxOverview[k][k] = (IF RanPool(p) THEN 1 ELSE 0)
           /\ idxFrags[k][k] = (IF RanPool(p) THEN frags[p] - failed[p] ELSE 0)
           /\ queue[k][k] = p

\* an ingestion has returned True while one of the other key is committing
C17_Witness ==
  \E p, q \in Calls :
    /\ key[p] # key[q]
    /\ pc[p] = "done" /\ ret[p] = "True" /\ idxFrags[key[p]][key[p]] >= 1
    /\ pc[q] = "pool" /\ running[q] >= 1 /\ idxFrags[key[q]][key[q]] >= 1

\* call p is between its marker check and its marker write
InFlight(p) ==
  pc[p] \in {"create", "setproc", "split", "overview", "pool", "snapshot", "touch"}

\* C18 (as claimed): at most one call per key is between its marker check and
\* its marker write.
C18_AtMostOneInFlight ==
  \A k \in Keys : Cardinality({p \in Calls : InFlight(p) /\ key[p] = k}) <= 1

\* C19: with calls made one at a time, a call returns True if and only if
\* the marker of its key exists at that moment; a completed task has its
\* marker; and a call that returns False after creating its task leaves the
\* task failed with the error recorded.
C19_ReturnTaskMarkerAgree ==
  [][\A p \in Calls :
       /\ (pc[p] # "done" /\ pc'[p] = "done")
            => /\ (ret'[p] = "True") = marker'[CheckpointDir(key'[p])][key'[p]]
               /\ ret'[p] \in {"True", "False"}
               /\ (ret'[p] = "False" /\ task[p].status # "none")
                    => /\ task'[p].status = "failed"
                       /\ task'[p].error = exc[p] /\ exc[p] # "none"
       /\ task'[p].status = "completed"
            => marker'[CheckpointDir(key'[p])][key'[p]]]_vars

\* a failed call has been followed by a successful one for the same key
C19_Witness ==
  \E p, q \in Calls :
    /\ p # q /\ key[p] = key[q]
    /\ pc[p] = "done" /\ ret[p] = "False" /\ task[p].status = "failed"
    /\ pc[q] = "done" /\ ret[q] = "True" /\ task[q].status = "completed"
    /\ marker[Dir(q)][key[q]]

\* C20 (as claimed): in a session begun with an empty history, the turn
\* after a successful ingestion, when its text is not a document reference,
\* takes the query branch.
C20_QueryAfterIngestion ==
  (Len(paths) = 2 /\ paths[1] = "ingest_ok" /\ history0 = <<>> /\ ~LooksLikeRef(txt))
    => paths[2] \in {"query", "soft_fail", "query_ok"}

TypeOK ==
  /\ pc \in [Calls -> {"idle", "create", "setproc", "split", "overview", "pool", "snapshot", "touch", "complete",
                       "attach", "except", "except_error", "done"}]
  /\ key \in [Calls -> Keys]
  /\ ret \in [Calls -> {"none", "True", "False"}]
  /\ exc \in [Calls -> Errors]
  /\ \A p \in Calls : frags[p] \in -1..BigFrags
  /\ \A p \in Calls : started[p] \in 0..BigFrags
  /\ \A p \in Calls : running[p] \in 0..started[p]
  /\ \A p \in Calls : task[p].status \in Statuses /\ task[p].error \in Errors
  /\ wpc \in {"idle", "get", "check_completed", "check_failed", "check_timeout",
              "sleep", "done"}
  /\ wret \in {"none", "True", "False"}
  /\ wtask \in Calls \cup {0}
  /\ now \in 0..MaxTime + MaxTimeout + 1
  /\ tpc \in {"idle", "process", "retrieve", "model", "remember"}
  /\ txt \in Texts \cup {<<>>}
  /\ Len(paths) \in 0..MaxTurns
  /\ Len(chatbot) = Len(paths)
  /\ prompt \in {"none", "", "prompt"}
  /\ indexFault \in IndexFaults /\ memoryFault \in MemoryFaults
  /\ modelCalls \in 0..1 /\ memWrites \in 0..1
  /\ wdir \in storeDirs \cup {"base"}
  /\ loading \in BOOLEAN
====
